---- MODULE Spec2Model ----
(***************************************************************************)
(* Error Learning System (workflows/error-learning.js): the registry of    *)
(* reported errors, pattern detection, similarity lookup, regression-test  *)
(* synthesis and the export of the synthesized tests into the project's    *)
(* test files.                                                             *)
(*                                                                         *)
(* Texts are TLA+ strings, handled character by character with Len, SubSeq *)
(* and \o, so that String.includes, String.match and String.split are      *)
(* computed on the characters as the JavaScript engine computes them.      *)
(***************************************************************************)
EXTENDS Integers, Sequences, FiniteSets, TLC

(***************************************************************************)
(* Bounds of the model.                                                    *)
(***************************************************************************)
\* ErrorLearningSystem instances alive at the same time (CLI processes, smoke runs)
NumProcs == 2
\* reportError calls in one behaviour, over all instances
MaxReports == 2

Procs == 1..NumProcs

(***************************************************************************)
(* JavaScript strings.                                                     *)
(***************************************************************************)
CharAt(s, i) == SubSeq(s, i, i)

UpperChars == <<"A","B","C","D","E","F","G","H","I","J","K","L","M",
                "N","O","P","Q","R","S","T","U","V","W","X","Y","Z">>
LowerChars == <<"a","b","c","d","e","f","g","h","i","j","k","l","m",
                "n","o","p","q","r","s","t","u","v","w","x","y","z">>
DigitChars == <<"0","1","2","3","4","5","6","7","8","9">>

\* the class \w of a JavaScript regular expression: [A-Za-z0-9_]
WordCharSet == {UpperChars[i] : i \in 1..26} \cup {LowerChars[i] : i \in 1..26}
               \cup {DigitChars[i] : i \in 1..10} \cup {"_"}

IsWordChar(c) == c \in WordCharSet

\* String.prototype.toLowerCase / toUpperCase, one character
LowerChar(c) ==
    IF \E i \in 1..26 : UpperChars[i] = c
    THEN LowerChars[CHOOSE i \in 1..26 : UpperChars[i] = c]
    ELSE c

UpperChar(c) ==
    IF \E i \in 1..26 : LowerChars[i] = c
    THEN UpperChars[CHOOSE i \in 1..26 : LowerChars[i] = c]
    ELSE c

RECURSIVE ToLowerCase(_)
ToLowerCase(s) ==
    IF Len(s) = 0 THEN ""
    ELSE LowerChar(CharAt(s, 1)) \o ToLowerCase(SubSeq(s, 2, Len(s)))

\* s.startsWith(t, pos) with pos counted from 1
StartsWithAt(s, t, pos) ==
    /\ pos + Len(t) - 1 <= Len(s)
    /\ SubSeq(s, pos, pos + Len(t) - 1) = t

\* String.prototype.includes
Includes(s, t) == \E i \in 1..(Len(s) - Len(t) + 1) : StartsWithAt(s, t, i)

\* number of positions of s at which t occurs
Occurrences(s, t) ==
    Cardinality({i \in 1..(Len(s) - Len(t) + 1) : StartsWithAt(s, t, i)})

\* length of the longest run of \w characters of s that starts at pos
RECURSIVE WordRun(_, _)
WordRun(s, pos) ==
    IF pos <= Len(s) /\ IsWordChar(CharAt(s, pos))
    THEN 1 + WordRun(s, pos + 1)
    ELSE 0

\* length of the longest run of characters other than a line terminator ('.')
RECURSIVE DotRun(_, _)
DotRun(s, pos) ==
    IF pos <= Len(s) /\ CharAt(s, pos) \notin {"\n", "\r"}
    THEN 1 + DotRun(s, pos + 1)
    ELSE 0

\* Array.prototype.join
RECURSIVE Join(_, _)
Join(parts, sep) ==
    IF Len(parts) = 0 THEN ""
    ELSE IF Len(parts) = 1 THEN parts[1]
    ELSE parts[1] \o sep \o Join(Tail(parts), sep)

\* Array.prototype.includes
SeqIncludes(seq, x) == \E i \in 1..Len(seq) : seq[i] = x

(***************************************************************************)
(* Regular expressions.  A pattern is a sequence of elements: a literal    *)
(* text, the capturing group (\w+), a capturing alternation (a|b) of       *)
(* literal texts, or the greedy .* ; these are the only forms the taxonomy *)
(* uses.  String.prototype.match without the g flag gives the leftmost     *)
(* match, the quantifiers being greedy and backtracking.                   *)
(***************************************************************************)
Lit(t) == [k |-> "lit", s |-> t]
Word == [k |-> "word"]
Alt(ts) == [k |-> "alt", alts |-> ts]
DotStar == [k |-> "dotstar"]

\* The match of elements i.. of re at position pos of s: <<>> when there is
\* none, else <<[end, caps]>> for the match the engine prefers (end is the
\* position after the match, caps the texts of the groups in order).
RECURSIVE MatchFrom(_, _, _, _)
RECURSIVE TryWord(_, _, _, _, _)
RECURSIVE TryAlt(_, _, _, _, _)
RECURSIVE TryDot(_, _, _, _, _)
MatchFrom(re, i, s, pos) ==
    IF i > Len(re) THEN <<[end |-> pos, caps |-> <<>>]>>
    ELSE CASE re[i].k = "lit" ->
                 IF StartsWithAt(s, re[i].s, pos)
                 THEN MatchFrom(re, i + 1, s, pos + Len(re[i].s))
                 ELSE <<>>
           [] re[i].k = "word" -> TryWord(re, i, s, pos, WordRun(s, pos))
           [] re[i].k = "alt" -> TryAlt(re, i, s, pos, 1)
           [] re[i].k = "dotstar" -> TryDot(re, i, s, pos, DotRun(s, pos))

\* (\w+): the longest run first, then shorter ones, at least one character
TryWord(re, i, s, pos, n) ==
    IF n < 1 THEN <<>>
    ELSE LET rest == MatchFrom(re, i + 1, s, pos + n)
         IN  IF rest # <<>>
             THEN <<[end |-> rest[1].end,
                     caps |-> <<SubSeq(s, pos, pos + n - 1)>> \o rest[1].caps]>>
             ELSE TryWord(re, i, s, pos, n - 1)

\* (a|b): the alternatives in the order written
TryAlt(re, i, s, pos, a) ==
    IF a > Len(re[i].alts) THEN <<>>
    ELSE LET t == re[i].alts[a]
             rest == IF StartsWithAt(s, t, pos)
                     THEN MatchFrom(re, i + 1, s, pos + Len(t))
                     ELSE <<>>
         IN  IF rest # <<>>
             THEN <<[end |-> rest[1].end, caps |-> <<t>> \o rest[1].caps]>>
             ELSE TryAlt(re, i, s, pos, a + 1)

\* .* : the longest run first, down to the empty one
TryDot(re, i, s, pos, n) ==
    IF n < 0 THEN <<>>
    ELSE LET rest == MatchFrom(re, i + 1, s, pos + n)
         IN  IF rest # <<>> THEN rest ELSE TryDot(re, i, s, pos, n - 1)

\* the value null / undefined
Null == [null |-> TRUE]

\* s.match(re): Null, or [match, captures] for the leftmost match
\* (match = match[0], captures = match.slice(1))
RECURSIVE SearchFrom(_, _, _)
SearchFrom(s, re, pos) ==
    IF pos > Len(s) + 1 THEN Null
    ELSE LET m == MatchFrom(re, 1, s, pos)
         IN  IF m # <<>>
             THEN [match |-> SubSeq(s, pos, m[1].end - 1), captures |-> m[1].caps]
             ELSE SearchFrom(s, re, pos + 1)

StringMatch(s, re) == SearchFrom(s, re, 1)

(***************************************************************************)
(* The taxonomy.                                                           *)
(***************************************************************************)
ERROR_CATEGORIES ==
    [c \in {"js-runtime", "js-syntax", "python-import", "python-runtime",
            "qt-crash", "database"} |->
      CASE c = "js-runtime" ->
             [testType |-> "playwright",
              patterns |-> <<
                [regex |-> <<Word, Lit(" is not defined")>>, extract |-> "variableName"],
                [regex |-> <<Lit("Cannot read propert"), Alt(<<"y", "ies">>), Lit(" of "),
                             Alt(<<"null", "undefined">>)>>, extract |-> "nullAccess"],
                [regex |-> <<Lit("Cannot access '"), Word, Lit("' before initialization")>>,
                 extract |-> "temporalDeadZone"],
                [regex |-> <<Word, Lit(" is not a function")>>, extract |-> "notFunction"]>>]
        [] c = "js-syntax" ->
             [testType |-> "eslint",
              patterns |-> <<
                [regex |-> <<Lit("Unexpected token")>>, extract |-> "syntaxError"],
                [regex |-> <<Lit("Unterminated string")>>, extract |-> "unterminatedString"]>>]
        [] c = "python-import" ->
             [testType |-> "python",
              patterns |-> <<
                [regex |-> <<Lit("ModuleNotFoundError: No module named '"), Word, Lit("'")>>,
                 extract |-> "moduleName"],
                [regex |-> <<Lit("ImportError: cannot import name '"), Word, Lit("'")>>,
                 extract |-> "importName"]>>]
        [] c = "python-runtime" ->
             [testType |-> "python",
              patterns |-> <<
                [regex |-> <<Lit("NameError: name '"), Word, Lit("' is not defined")>>,
                 extract |-> "variableName"],
                [regex |-> <<Lit("AttributeError: '"), Word, Lit("' object has no attribute '"),
                             Word, Lit("'")>>, extract |-> "attributeError"],
                [regex |-> <<Lit("TypeError: "), Word>>, extract |-> "typeError"]>>]
        [] c = "qt-crash" ->
             [testType |-> "manual",
              patterns |-> <<
                [regex |-> <<Lit("SIGSEGV"), DotStar, Lit("QAccessible")>>,
                 extract |-> "accessibilityCrash"],
                [regex |-> <<Lit("Segmentation fault")>>, extract |-> "segfault"]>>]
        [] c = "database" ->
             [testType |-> "python",
              patterns |-> <<
                [regex |-> <<Lit("sqlite3.OperationalError")>>, extract |-> "sqliteError"],
                [regex |-> <<Lit("no such table: "), Word>>, extract |-> "missingTable"]>>]]

CategoryNames == DOMAIN ERROR_CATEGORIES

\* ERROR_CATEGORIES is an object literal: a property lookup that finds no own
\* property goes on to Object.prototype, whose properties are functions or
\* objects (truthy) that have no 'patterns'.
ObjectPrototypeKeys ==
    {"constructor", "toString", "toLocaleString", "valueOf", "hasOwnProperty",
     "isPrototypeOf", "propertyIsEnumerable", "__proto__", "__defineGetter__",
     "__defineSetter__", "__lookupGetter__", "__lookupSetter__"}

Inherited == [inherited |-> TRUE]

\* ERROR_CATEGORIES[category]
CategoryLookup(category) ==
    IF category \in CategoryNames THEN ERROR_CATEGORIES[category]
    ELSE IF category \in ObjectPrototypeKeys THEN Inherited
    ELSE Null

\* the outcome of a call that throws
TypeError == [exception |-> "TypeError"]

\* the loop of detectPattern over patterns i.. of the category
RECURSIVE DetectFrom(_, _, _)
DetectFrom(errorMessage, categoryConfig, i) ==
    IF i > Len(categoryConfig.patterns) THEN Null
    ELSE LET pattern == categoryConfig.patterns[i]
             match == StringMatch(errorMessage, pattern.regex)
         IN  IF match # Null
             THEN [type |-> pattern.extract,
                   match |-> match.match,
                   captures |-> match.captures,
                   testType |-> categoryConfig.testType]
             ELSE DetectFrom(errorMessage, categoryConfig, i + 1)

\* detectPattern(errorMessage, category): Null, the detected pattern, or
\* TypeError when categoryConfig.patterns is not iterable
detectPattern(errorMessage, category) ==
    LET categoryConfig == CategoryLookup(category)
    IN  IF categoryConfig = Null THEN Null
        ELSE IF categoryConfig = Inherited THEN TypeError
        ELSE DetectFrom(errorMessage, categoryConfig, 1)

\* the values a context property takes: a text, a number, or the number NaN
\* (parseInt of a --line argument that is no number)
Str(t) == [str |-> t]
Num(n) == [num |-> n]
NaN == [nan |-> TRUE]

\* the empty object {}
EmptyObject == [k \in {} |-> Null]

(***************************************************************************)
(* The reports the model draws from: (errorMessage, category, context).    *)
(***************************************************************************)
Report(m, c, ctx) == [message |-> m, category |-> c, context |-> ctx]

CoreReports ==
    {Report("fooBar is not defined", "js-runtime", [file |-> Str("app.js")]),
     Report("Cannot access 'x' before initialization", "js-runtime",
            [source |-> Str("playwright-e2e")]),
     Report("ModuleNotFoundError: No module named 'requests'", "python-import",
            EmptyObject),
     Report("Unexpected token '}'", "js-syntax",
            [file |-> Str("app.js"), line |-> NaN]),
     Report("Segmentation fault", "qt-crash", EmptyObject),
     Report("fooBar is not defined", "totally-unrecognized", EmptyObject),
     Report("fooBar is not defined", "constructor", EmptyObject)}

ConcurrentReports ==
    {Report("fooBar is not defined", "js-runtime", [file |-> Str("app.js")]),
     Report("Unexpected token '}'", "js-syntax",
            [file |-> Str("app.js"), line |-> NaN]),
     Report("Segmentation fault", "qt-crash", EmptyObject),
     Report("fooBar is not defined", "totally-unrecognized", EmptyObject)}

TaxonomyReports ==
    CoreReports \cup
    {Report("Cannot read properties of undefined (reading 'name')", "js-runtime",
            EmptyObject),
     Report("save is not a function", "js-runtime", EmptyObject),
     Report("Unterminated string constant", "js-syntax", EmptyObject),
     Report("SyntaxError: missing ) after argument list", "js-syntax", EmptyObject),
     Report("ImportError: cannot import name 'Draft7Validator'", "python-import",
            EmptyObject),
     Report("NameError: name 'total' is not defined", "python-runtime",
            [file |-> Str("calc.py"), line |-> Num(12)]),
     Report("AttributeError: 'Will' object has no attribute 'heirs'",
            "python-runtime", EmptyObject),
     Report("TypeError: unsupported operand type(s)", "python-runtime", EmptyObject),
     Report("SIGSEGV in QAccessible::queryAccessibleInterface", "qt-crash",
            EmptyObject),
     Report("sqlite3.OperationalError: database is locked", "database", EmptyObject),
     Report("no such table: heirs", "database", EmptyObject),
     Report("fooBar is not defined", "unknown", EmptyObject),
     Report("disk quota exceeded", "toString", EmptyObject)}

\* Reports whose texts share words: the same failure in two files, a text
\* that repeats a word, texts of two, three and four significant words with
\* one word in common, and a text with no word longer than 3 characters.
SimilarityReports ==
    {Report("fooBar is not defined in init.js", "js-runtime",
            [file |-> Str("init.js")]),
     Report("fooBar is not defined in main.js", "js-runtime",
            [file |-> Str("main.js")]),
     Report("fooBar is not defined", "js-runtime", EmptyObject),
     Report("NameError: name 'total' is not defined", "python-runtime", EmptyObject),
     Report("calc.py: NameError: name 'total' is not defined", "python-runtime",
            [file |-> Str("calc.py"), line |-> Num(12)]),
     Report("Timeout waiting for selector", "js-runtime",
            [source |-> Str("playwright-e2e")]),
     Report("Timeout: page.goto timeout, navigation timeout of 30000ms exceeded",
            "js-runtime", [source |-> Str("playwright-e2e")]),
     Report("EOF", "js-syntax", EmptyObject)}

AllReports == TaxonomyReports \cup SimilarityReports

\* The texts and (text, category) pairs of the reports above, with their
\* significant words and detected patterns computed once.
ReportMessages == {r.message : r \in AllReports}
ReportKeys == {<<r.message, r.category>> : r \in AllReports}
DetectedPatternOf == [k \in ReportKeys |-> detectPattern(k[1], k[2])]

(***************************************************************************)
(* Similarity.                                                             *)
(***************************************************************************)
\* s.split(/\W+/): the texts between the runs of non-word characters; a
\* separator at the start or the end of s gives an empty text there
RECURSIVE SplitFrom(_, _)
SplitFrom(s, pos) ==
    LET n == WordRun(s, pos)
        piece == SubSeq(s, pos, pos + n - 1)
    IN  IF pos + n > Len(s) THEN <<piece>>
        ELSE <<piece>> \o SplitFrom(s, pos + n + 
               (CHOOSE m \in 1..(Len(s) - pos - n + 1) :
                   /\ \A j \in 0..(m - 1) : ~IsWordChar(CharAt(s, pos + n + j))
                   /\ (pos + n + m > Len(s) \/ IsWordChar(CharAt(s, pos + n + m)))))

SplitNonWord(s) == SplitFrom(s, 1)

\* errorMessage.toLowerCase().split(/\W+/).filter(w => w.length > 3)
SignificantWords(message) ==
    SelectSeq(SplitNonWord(ToLowerCase(message)), LAMBDA w : Len(w) > 3)

SignificantWordsOf == [m \in ReportMessages |-> SignificantWords(m)]

WordsOf(message) ==
    IF message \in ReportMessages THEN SignificantWordsOf[message]
    ELSE SignificantWords(message)

\* a predicate that wants more common words than the threshold
IsSimilarStrict(errorMessage, e) ==
    LET words == WordsOf(errorMessage)
        existingWords == WordsOf(e.message)
        commonWords == SelectSeq(words, LAMBDA w : SeqIncludes(existingWords, w))
    IN  2 * Len(commonWords) > (IF 6 <= Len(words) THEN 6 ELSE Len(words))

\* a predicate that takes any common word as enough
IsSimilarAnyCommon(errorMessage, e) ==
    LET words == WordsOf(errorMessage)
        existingWords == WordsOf(e.message)
        commonWords == SelectSeq(words, LAMBDA w : SeqIncludes(existingWords, w))
    IN  Len(commonWords) >= (IF 1 <= Len(words) THEN 1 ELSE 0)

\* the predicate of findSimilarErrors on one stored record; the comparison
\* c >= Math.min(3, n * 0.5) is made on the doubled values
IsSimilar(errorMessage, e) ==
    LET words == WordsOf(errorMessage)
        existingWords == WordsOf(e.message)
        commonWords == SelectSeq(words, LAMBDA w : SeqIncludes(existingWords, w))
    IN  2 * Len(commonWords) >= (IF 6 <= Len(words) THEN 6 ELSE Len(words))

\* findSimilarErrors(errorMessage) on the registry's errors
findSimilarErrors(errors, errorMessage) ==
    SelectSeq(errors, LAMBDA e : IsSimilar(errorMessage, e))

(***************************************************************************)
(* The registry and its file.                                              *)
(***************************************************************************)


\* loadRegistry's freshly initialized registry
EmptyRegistry(projectName) ==
    [projectName |-> projectName,
     version |-> "1.0",
     errors |-> <<>>,
     generatedTests |-> <<>>,
     patterns |-> <<>>]

\* JSON.stringify of the context object: a NaN is written as null
ContextToJSON(context) ==
    [k \in DOMAIN context |-> IF context[k] = NaN THEN Null ELSE context[k]]

ErrorToJSON(e) == [e EXCEPT !.context = ContextToJSON(e.context)]

\* JSON.stringify(this.registry, null, 2): the document written to the file.
\* Texts, booleans and arrays are written as they are; keys that were never
\* set (detectedPattern, similarErrors) are absent from the record already.
JSONStringify(registry) ==
    [registry EXCEPT !.errors = [i \in 1..Len(registry.errors) |->
                                    ErrorToJSON(registry.errors[i])]]

\* a text that JSONStringify did not write (a file cut short or edited by hand)
Raw(text) == [raw |-> text]

\* what a call gives that ends in an exception
SyntaxError == [exception |-> "SyntaxError"]
ReadError == [exception |-> "EACCES"]

\* JSON.parse: a document JSONStringify wrote gives its value back; the
\* texts {} and null are JSON texts of the empty object and of null; a text
\* cut short in the middle of a string is no JSON text
JSONParse(document) ==
    IF "raw" \notin DOMAIN document THEN document
    ELSE IF document.raw = "{}" THEN EmptyObject
    ELSE IF document.raw = "null" THEN Null
    ELSE SyntaxError

\* a file of the file system: absent, or holding the text last written
NoFile == [exists |-> FALSE]
FileOf(text) == [exists |-> TRUE, text |-> text]

\* a file that exists and that this process may not read (readFileSync
\* throws); it may or may not be allowed to write it
UnreadableFile(writable) == [exists |-> TRUE, writable |-> writable]

\* a registry file cut short by a write that failed half way
TruncatedFile == FileOf(Raw("{\n  \"projectName\": \"will-gen"))

Readable(file) == "text" \in DOMAIN file
Writable(file) == "writable" \in DOMAIN file => file.writable

\* readFileSync(path, 'utf8') of a file that exists
readFileSync(file) == IF Readable(file) THEN file.text ELSE ReadError

\* the states of the storage medium: writes succeed; writes fail and leave
\* the file as it was (permission denied, read-only medium); writes fail
\* and leave the file cut short (disk full)
DiskStates == {"ok", "readonly", "full"}

\* how a call ended: threw tells whether it raised, file is the file afterwards
Outcome(threw, file) == [threw |-> threw, file |-> file]

\* a write that reports no failure: the exception is swallowed
writeFileSyncSilent(file, written, cut, disk) ==
    CASE ~Writable(file) -> Outcome(FALSE, file)
      [] disk = "readonly" -> Outcome(FALSE, file)
      [] disk = "full" -> Outcome(FALSE, cut)
      [] OTHER -> Outcome(FALSE, written)

\* writeFileSync(path, data): written is the file holding data, cut is the
\* file a write leaves behind that fails half way
writeFileSync(file, written, cut, disk) ==
    CASE ~Writable(file) -> Outcome(TRUE, file)
      [] disk = "readonly" -> Outcome(TRUE, file)
      [] disk = "full" -> Outcome(TRUE, cut)
      [] OTHER -> Outcome(FALSE, written)

\* a load that never reads the file
loadRegistryFresh(projectName, registryFile) == EmptyRegistry(projectName)

\* a load that leaves out the records whose synthesis is still to come
loadRegistryWithoutNew(projectName, registryFile) ==
    IF registryFile.exists /\ Readable(registryFile)
       /\ "raw" \notin DOMAIN registryFile.text
    THEN [registryFile.text EXCEPT !.errors =
             SelectSeq(@, LAMBDA e : e.status # "new")]
    ELSE EmptyRegistry(projectName)

\* a load without the try/catch: what the read or the parse gave is taken
\* as the registry
loadRegistryUncaught(projectName, registryFile) ==
    IF registryFile.exists
    THEN LET text == readFileSync(registryFile)
         IN  IF text = ReadError THEN ReadError ELSE JSONParse(text)
    ELSE EmptyRegistry(projectName)

\* a load that also falls back when what it parsed has no errors list
loadRegistryValidating(projectName, registryFile) ==
    IF registryFile.exists
    THEN LET text == readFileSync(registryFile)
             parsed == IF text = ReadError THEN ReadError ELSE JSONParse(text)
         IN  IF parsed \in {ReadError, SyntaxError} \/ "errors" \notin DOMAIN parsed
             THEN EmptyRegistry(projectName)
             ELSE parsed
    ELSE EmptyRegistry(projectName)

\* loadRegistry()
loadRegistry(projectName, registryFile) ==
    IF registryFile.exists
    THEN LET text == readFileSync(registryFile)
             parsed == IF text = ReadError THEN ReadError ELSE JSONParse(text)
         IN  IF parsed \in {ReadError, SyntaxError}
             THEN EmptyRegistry(projectName)
             ELSE parsed
    ELSE EmptyRegistry(projectName)

\* a save that merges: the records on disk that the instance does not hold
\* are kept in front of its own
saveRegistryMerging(registry, registryFile) ==
    IF ~registryFile.exists THEN FileOf(JSONStringify(registry))
    ELSE LET old == JSONParse(registryFile.text)
             kept == SelectSeq(old.errors,
                        LAMBDA e : \A i \in 1..Len(registry.errors) :
                                      registry.errors[i].id # e.id)
         IN  FileOf(JSONStringify([registry EXCEPT !.errors = kept \o @]))

\* a save that writes the fragments and lint entries the file already
\* held: what synthesis added is not written
saveRegistryKeepingSynthesis(registry, registryFile) ==
    IF ~registryFile.exists THEN FileOf(JSONStringify(registry))
    ELSE FileOf(JSONStringify(
             [registry EXCEPT !.generatedTests = registryFile.text.generatedTests,
                              !.patterns = registryFile.text.patterns]))

\* a save that leaves the records of the file as they are and writes the
\* fragments and lint entries of the instance
saveRegistryKeepingRecords(registry, registryFile) ==
    IF ~registryFile.exists THEN FileOf(JSONStringify(registry))
    ELSE FileOf(JSONStringify(
             [registry EXCEPT !.errors = registryFile.text.errors]))

\* a save that writes the registry as it was before the last push
saveRegistryBeforePush(registry, registryFile) ==
    FileOf(JSONStringify([registry EXCEPT !.errors =
                             SubSeq(@, 1, Len(@) - 1)]))

\* saveRegistry(): the file is overwritten with the whole in-memory registry
saveRegistry(registry, registryFile) == FileOf(JSONStringify(registry))

(***************************************************************************)
(* Synthesis.  Each generator gives [ok, registry]: its return value and   *)
(* the in-memory registry after it.  Of the template texts, the lines that *)
(* interpolate a name are kept as written and the lines of fixed text      *)
(* between them are left out; the fixed text holds no test name.           *)
(***************************************************************************)
Result(ok, registry) == [ok |-> ok, registry |-> registry]

\* `get${varName.charAt(0).toUpperCase() + varName.slice(1)}`
GetterName(varName) ==
    "get" \o UpperChar(CharAt(varName, 1)) \o SubSeq(varName, 2, Len(varName))

PlaywrightTestName(type, captures) ==
    CASE type = "variableName" -> "variable_" \o captures[1] \o "_accessible"
      [] type = "temporalDeadZone" -> "variable_" \o captures[1] \o "_no_tdz"
      [] type = "notFunction" -> "function_" \o captures[1] \o "_exists"

PlaywrightCheckCode(type, captures) ==
    CASE type = "variableName" ->
           "\n        // Original error: \"" \o captures[1] \o " is not defined\""
           \o "\n                if (typeof window." \o GetterName(captures[1])
           \o " === 'function') {"
           \o "\n                if (typeof " \o captures[1] \o " !== 'undefined') {"
           \o "\n        expect(isAccessible, '" \o captures[1]
           \o " should be accessible (directly or via " \o GetterName(captures[1])
           \o ")').toBe(true);"
      [] type = "temporalDeadZone" ->
           "\n        // Original error: \"Cannot access '" \o captures[1]
           \o "' before initialization\""
           \o "\n        expect(noTdzError, '" \o captures[1]
           \o " should not cause TDZ errors').toBe(true);"
      [] type = "notFunction" ->
           "\n            return typeof window." \o captures[1] \o " === 'function';"
           \o "\n        expect(isFunction, '" \o captures[1]
           \o " should be a function').toBe(true);"

PlaywrightTestCode(testName, checkCode) ==
    "\n    test('regression: " \o testName \o "', async ({ page }) => {\n"
    \o checkCode \o "\n    });"

\* a generator that numbers its names by the fragments the registry holds
generatePlaywrightTestNumbered(registry, error) ==
    LET type == error.detectedPattern.type
        captures == error.detectedPattern.captures
    IN  IF type \notin {"variableName", "temporalDeadZone", "notFunction"}
        THEN Result(FALSE, registry)
        ELSE LET testName == PlaywrightTestName(type, captures) \o "_"
                                \o ToString(Len(registry.generatedTests))
                 testCode == PlaywrightTestCode(testName,
                                                PlaywrightCheckCode(type, captures))
             IN  Result(TRUE,
                   [registry EXCEPT !.generatedTests = Append(@,
                       [errorId |-> error.id,
                        testName |-> testName,
                        testCode |-> testCode,
                        testType |-> "playwright"])])

\* generatePlaywrightTest(error)
generatePlaywrightTest(registry, error) ==
    LET type == error.detectedPattern.type
        captures == error.detectedPattern.captures
    IN  IF type \notin {"variableName", "temporalDeadZone", "notFunction"}
        THEN Result(FALSE, registry)
        ELSE LET testName == PlaywrightTestName(type, captures)
                 testCode == PlaywrightTestCode(testName,
                                                PlaywrightCheckCode(type, captures))
             IN  Result(TRUE,
                   [registry EXCEPT !.generatedTests = Append(@,
                       [errorId |-> error.id,
                        testName |-> testName,
                        testCode |-> testCode,
                        testType |-> "playwright"])])

\* the lint entry is recorded among the generated tests
generateESLintCheckAsTest(registry, error) ==
    Result(TRUE,
      [registry EXCEPT !.generatedTests = Append(@,
          [errorId |-> error.id, testName |-> "no-undef", testCode |-> "",
           testType |-> "eslint"])])

\* generateESLintCheck(error)
generateESLintCheck(registry, error) ==
    Result(TRUE,
      [registry EXCEPT !.patterns = Append(@,
          [errorId |-> error.id, type |-> "eslint", rule |-> "no-undef"])])

PythonTestName(type, captures) ==
    CASE type = "moduleName" -> "test_module_" \o captures[1] \o "_importable"
      [] type = "variableName" -> "test_variable_" \o captures[1] \o "_defined"

PythonTestCode(type, testName, captures) ==
    CASE type = "moduleName" ->
           "\ndef " \o testName \o "():"
           \o "\n    \"\"\"Regression test: ensure " \o captures[1]
           \o " module is importable\"\"\""
           \o "\n        import " \o captures[1]
           \o "\n        pytest.fail(\"" \o captures[1]
           \o " module should be importable\")\n"
      [] type = "variableName" ->
           "\ndef " \o testName \o "():"
           \o "\n    \"\"\"Regression test: ensure " \o captures[1]
           \o " is defined\"\"\""
           \o "\n    pass\n"

\* generatePythonTest(error)
generatePythonTest(registry, error) ==
    LET type == error.detectedPattern.type
        captures == error.detectedPattern.captures
    IN  IF type \notin {"moduleName", "variableName"}
        THEN Result(FALSE, registry)
        ELSE LET testName == PythonTestName(type, captures)
             IN  Result(TRUE,
                   [registry EXCEPT !.generatedTests = Append(@,
                       [errorId |-> error.id,
                        testName |-> testName,
                        testCode |-> PythonTestCode(type, testName, captures),
                        testType |-> "python"])])

\* a dispatch whose default case falls through to the lint check
generateTestForErrorNoDefault(registry, error) ==
    IF "detectedPattern" \notin DOMAIN error
    THEN Result(FALSE, registry)
    ELSE CASE error.detectedPattern.testType = "playwright" ->
                generatePlaywrightTest(registry, error)
           [] error.detectedPattern.testType = "python" ->
                generatePythonTest(registry, error)
           [] OTHER -> generateESLintCheck(registry, error)

\* generateTestForError(error)
generateTestForError(registry, error) ==
    IF "detectedPattern" \notin DOMAIN error
    THEN Result(FALSE, registry)
    ELSE CASE error.detectedPattern.testType = "playwright" ->
                generatePlaywrightTest(registry, error)
           [] error.detectedPattern.testType = "eslint" ->
                generateESLintCheck(registry, error)
           [] error.detectedPattern.testType = "python" ->
                generatePythonTest(registry, error)
           [] OTHER -> Result(FALSE, registry)

(***************************************************************************)
(* Export.                                                                 *)
(***************************************************************************)
PlaywrightHeader ==
    "// @ts-check\nconst { test, expect } = require('@playwright/test');\n"
    \o "\n/**\n * Auto-generated Regression Tests\n */\n"
    \o "\ntest.describe('Regression Tests - Error Prevention', () => {\n"

PlaywrightFooter == "\n});\n"

PythonHeader ==
    "\"\"\"\nAuto-generated Regression Tests\n\"\"\"\n\nimport pytest\n\n"

PythonFooter == "\n"

\* existsSync(testFilePath) ? readFileSync(testFilePath, 'utf8') : '', for
\* a target file that can be read
ExistingTests(file) == IF file.exists THEN readFileSync(file) ELSE ""

\* tests.filter(t => !existingTests.includes(t.testName))
NewTests(tests, existingTests) ==
    SelectSeq(tests, LAMBDA t : ~Includes(existingTests, t.testName))

TestCodes(tests) == [i \in 1..Len(tests) |-> tests[i].testCode]

\* exportPlaywrightTests(projectPath, tests): how the call ends and the
\* target file afterwards; readFileSync of a target that cannot be read
\* throws before anything is written
exportPlaywrightTests(tests, file, disk) ==
    IF file.exists /\ ~Readable(file) THEN Outcome(TRUE, file)
    ELSE LET newTests == NewTests(tests, ExistingTests(file))
         IN  IF Len(newTests) = 0 THEN Outcome(FALSE, file)
             ELSE writeFileSync(file,
                                FileOf(PlaywrightHeader
                                       \o Join(TestCodes(newTests), "\n")
                                       \o PlaywrightFooter),
                                FileOf(""), disk)

\* exportPythonTests(projectPath, tests): how the call ends and the target
\* file afterwards
exportPythonTests(tests, file, disk) ==
    IF file.exists /\ ~Readable(file) THEN Outcome(TRUE, file)
    ELSE LET newTests == NewTests(tests, ExistingTests(file))
         IN  IF Len(newTests) = 0 THEN Outcome(FALSE, file)
             ELSE writeFileSync(file,
                                FileOf(PythonHeader
                                       \o Join(TestCodes(newTests), "\n")
                                       \o PythonFooter),
                                FileOf(""), disk)

TestsOfType(registry, testType) ==
    SelectSeq(registry.generatedTests, LAMBDA t : t.testType = testType)

\* exportTests(projectPath): how the call ends and the two target files
\* afterwards; the python export runs only when the playwright export returned
exportTests(registry, files, disk) ==
    IF "generatedTests" \notin DOMAIN registry THEN [threw |-> TRUE, files |-> files]
    ELSE
    LET playwrightTests == TestsOfType(registry, "playwright")
        pythonTests == TestsOfType(registry, "python")
        first == IF Len(playwrightTests) > 0
                 THEN exportPlaywrightTests(playwrightTests, files.playwright, disk)
                 ELSE Outcome(FALSE, files.playwright)
        second == IF ~first.threw /\ Len(pythonTests) > 0
                  THEN exportPythonTests(pythonTests, files.python, disk)
                  ELSE Outcome(FALSE, files.python)
    IN  [threw |-> first.threw \/ second.threw,
         files |-> [playwright |-> first.file, python |-> second.file]]

TestKinds == {"playwright", "python"}

(***************************************************************************)
(* reportError.                                                            *)
(***************************************************************************)
\* a category outside the taxonomy is replaced by the sentinel
StoredCategoryOrUnknown(category) ==
    IF category \in CategoryNames THEN category ELSE "unknown"

\* line 129, `category: category`: the record takes the argument as it is
StoredCategory(category) == category

\* a report that pushes the record before it looks for similar ones
NewErrorRecordPushedFirst(registry, id, errorMessage, category, context) ==
    LET error == [id |-> id,
                  message |-> errorMessage,
                  category |-> StoredCategory(category),
                  context |-> context,
                  status |-> "new",
                  testGenerated |-> FALSE]
        detectedPattern == IF <<errorMessage, category>> \in ReportKeys
                           THEN DetectedPatternOf[<<errorMessage, category>>]
                           ELSE detectPattern(errorMessage, category)
        withPattern == IF detectedPattern # Null
                       THEN error @@ [detectedPattern |-> detectedPattern]
                       ELSE error
        similar == findSimilarErrors(Append(registry.errors, withPattern),
                                     errorMessage)
    IN  IF detectedPattern = TypeError THEN TypeError
        ELSE IF Len(similar) > 0
             THEN withPattern @@
                    [similarErrors |-> [i \in 1..Len(similar) |-> similar[i].id]]
             ELSE withPattern

\* lines 126-147 of reportError: the new record, or TypeError when
\* detectPattern throws.  id stands for `err_${Date.now()}_${random}`: the
\* time and the random suffix make the ids of different calls different.
NewErrorRecord(registry, id, errorMessage, category, context) ==
    LET error == [id |-> id,
                  message |-> errorMessage,
                  category |-> StoredCategory(category),
                  context |-> context,
                  status |-> "new",
                  testGenerated |-> FALSE]
        detectedPattern == IF <<errorMessage, category>> \in ReportKeys
                           THEN DetectedPatternOf[<<errorMessage, category>>]
                           ELSE detectPattern(errorMessage, category)
        withPattern == IF detectedPattern # Null
                       THEN error @@ [detectedPattern |-> detectedPattern]
                       ELSE error
        similar == findSimilarErrors(registry.errors, errorMessage)
    IN  IF detectedPattern = TypeError THEN TypeError
        ELSE IF "errors" \notin DOMAIN registry THEN TypeError
        ELSE IF Len(similar) > 0
             THEN withPattern @@
                    [similarErrors |-> [i \in 1..Len(similar) |-> similar[i].id]]
             ELSE withPattern

\* this.registry.errors.push(error)
PushError(registry, error) == [registry EXCEPT !.errors = Append(@, error)]

\* the status is set, the flag is forgotten
MarkGeneratedStatusOnly(error) == [error EXCEPT !.status = "test-generated"]

\* error.testGenerated = true; error.status = 'test-generated'
MarkGenerated(error) ==
    [error EXCEPT !.testGenerated = TRUE, !.status = "test-generated"]

\* the registry after the assignments to error, which is the object that
\* was pushed on registry.errors
WithError(registry, error) ==
    [registry EXCEPT !.errors = [i \in 1..Len(@) |->
                                    IF @[i].id = error.id THEN error ELSE @[i]]]

(***************************************************************************)
(* The generated variableName check, run on a page.                        *)
(***************************************************************************)

\* What the three lookups of the check meet on a page, for the names varName
\* and getterName of the check:
\*   getter: window.<getterName> is no function, or a function that returns,
\*           or a function that throws;
\*   bare:   <varName> is undeclared (typeof gives 'undefined'), or defined, or
\*           a let/const binding not yet initialized (typeof throws);
\*   global: typeof window.<varName> !== 'undefined'.
\* A defined property of window resolves as a bare reference unless a
\* let/const binding shadows it, so global with an undeclared bare name is no
\* page state.
PageStates ==
    {page \in [getter : {"absent", "returns", "throws"},
               bare : {"undeclared", "defined", "uninitialized"},
               global : BOOLEAN] :
        page.global => page.bare # "undeclared"}

\* the value of isAccessible: the function page.evaluate runs, with its
\* try/catch around the three lookups in the order of the generated code
isAccessible(page) ==
    IF page.getter # "absent"
    THEN page.getter = "returns"
    ELSE IF page.bare = "uninitialized" THEN FALSE
    ELSE IF page.bare = "defined" THEN TRUE
    ELSE page.global

(***************************************************************************)
(* The views: listErrors and getSummary.                                   *)
(***************************************************************************)

\* a grouping step that starts the group of the category anew
AddToGroupOverwriting(byCategory, error) ==
    LET category == error.category
    IN  IF category \in DOMAIN byCategory
        THEN [byCategory EXCEPT ![category] = <<error>>]
        ELSE IF category \in ObjectPrototypeKeys THEN TypeError
        ELSE [k \in DOMAIN byCategory \cup {category} |->
                 IF k = category THEN <<error>> ELSE byCategory[k]]

\* one round of listErrors' grouping loop on the plain object byCategory:
\* a category the object has no own group for and that names a property of
\* Object.prototype reads as truthy, and push on it is not a function
AddToGroup(byCategory, error) ==
    LET category == error.category
    IN  IF category \in DOMAIN byCategory
        THEN [byCategory EXCEPT ![category] = Append(@, error)]
        ELSE IF category \in ObjectPrototypeKeys THEN TypeError
        ELSE [k \in DOMAIN byCategory \cup {category} |->
                 IF k = category THEN <<error>> ELSE byCategory[k]]

\* listErrors' loop over errors[i..]
RECURSIVE GroupErrors(_, _, _)
GroupErrors(errors, i, byCategory) ==
    IF i > Len(errors) THEN byCategory
    ELSE LET grouped == AddToGroup(byCategory, errors[i])
         IN  IF grouped = TypeError THEN TypeError
             ELSE GroupErrors(errors, i + 1, grouped)

\* listErrors(): TypeError, or the groups it prints (none when the registry
\* has no record: it returns before grouping)
listErrors(reg) ==
    IF "errors" \notin DOMAIN reg THEN TypeError
    ELSE IF Len(reg.errors) = 0 THEN [byCategory |-> EmptyObject]
    ELSE LET byCategory == GroupErrors(reg.errors, 1, EmptyObject)
         IN  IF byCategory = TypeError THEN TypeError
             ELSE [byCategory |-> byCategory]

\* String(Object.prototype[category]), the text an inherited property gives
\* when a number is added to it
InheritedText(category) ==
    IF category = "__proto__" THEN "[object Object]"
    ELSE "function " \o (IF category = "constructor" THEN "Object" ELSE category)
             \o "() { [native code] }"

\* (value || 0) + 1 for a count (Num) or a text (Str)
PlusOne(value) ==
    IF "num" \in DOMAIN value THEN Num(value.num + 1)
    ELSE Str(value.str \o "1")

\* one round of getSummary's reduce: acc[e.category] = (acc[e.category] || 0) + 1
\* (an assignment of a text to __proto__ sets nothing)
CountInGroup(acc, e) ==
    LET category == e.category
    IN  IF category \in DOMAIN acc
        THEN [acc EXCEPT ![category] = PlusOne(@)]
        ELSE IF category = "__proto__" THEN acc
        ELSE [k \in DOMAIN acc \cup {category} |->
                 IF k # category THEN acc[k]
                 ELSE IF category \in ObjectPrototypeKeys
                      THEN Str(InheritedText(category) \o "1")
                      ELSE Num(1)]

\* getSummary's reduce over errors[i..]
RECURSIVE CountErrors(_, _, _)
CountErrors(errors, i, acc) ==
    IF i > Len(errors) THEN acc
    ELSE CountErrors(errors, i + 1, CountInGroup(acc, errors[i]))

\* getSummary() (without lastUpdated: the registry's timestamps are left out
\* of the registry here)
getSummary(reg) ==
    IF "errors" \notin DOMAIN reg \/ "generatedTests" \notin DOMAIN reg THEN TypeError
    ELSE
    [totalErrors |-> Len(reg.errors),
     testsGenerated |-> Len(reg.generatedTests),
     byCategory |-> CountErrors(reg.errors, 1, EmptyObject)]

\* a hand-written test file of the project, per test kind
HandWritten ==
    [playwright |-> FileOf("// hand-written\ntest('login works', async () => {});\n"),
     python |-> FileOf("# hand-written\ndef test_login():\n    assert login()\n")]

ProjectName == "will-generator"

\* the project names given to the constructor
ProjectNames == {"will-generator", "./will-generator", "heir-tracker"}

\* path.join normalizes its result: leading './' segments of the last
\* argument are dropped
RECURSIVE StripDotSlash(_)
StripDotSlash(s) ==
    IF Len(s) >= 2 /\ SubSeq(s, 1, 2) = "./"
    THEN StripDotSlash(SubSeq(s, 3, Len(s)))
    ELSE s

\* join(this.errorRegistryPath, `${projectName}-errors.json`)
RegistryPath(projectName) ==
    "config/error-registry/" \o StripDotSlash(projectName \o "-errors.json")

\* the path of heir-tracker's registry file
OtherPath == RegistryPath("heir-tracker")

(***************************************************************************)
(* State.                                                                  *)
(***************************************************************************)
VARIABLES
    registryFile,   \* config/error-registry/<project>-errors.json
    files,          \* the two target test files under projectPath
    pc,             \* per instance: "none", "ready", or "saved" (in reportError,
                    \* between the first saveRegistry and generateTestForError)
    registry,       \* per instance: this.registry
    current,        \* per instance: the error object of the running or last reportError
    nextId,         \* the number of reportError calls so far, plus one
    disk,           \* the state of the storage medium, one of DiskStates
    last,           \* the operation that led to this state (history)
    project,        \* per instance: this.projectName ("" while there is none)
    otherFile       \* the registry file at OtherPath

vars == <<registryFile, files, pc, registry, current, nextId, disk, last,
          project, otherFile>>

\* this.projectRegistryPath of instance p, and the file there
projectRegistryPath(p) == RegistryPath(project[p])
projectRegistryFile(p) ==
    IF projectRegistryPath(p) = OtherPath THEN otherFile ELSE registryFile

\* the file at this.projectRegistryPath of instance p becomes file; the
\* registry file at the other path stays
WriteRegistryFile(p, file) ==
    IF projectRegistryPath(p) = OtherPath
    THEN otherFile' = file /\ registryFile' = registryFile
    ELSE registryFile' = file /\ otherFile' = otherFile

\* op: the operation, proc: the instance, arg: the report given to reportError,
\* threw: the call ended in an exception, saved: the step wrote the registry file
Op(op, p, arg, threw, saved) ==
    [op |-> op, proc |-> p, arg |-> arg, threw |-> threw, saved |-> saved]

Init ==
    /\ registryFile = NoFile
    /\ files \in {[playwright |-> NoFile, python |-> NoFile], HandWritten}
    /\ pc = [p \in Procs |-> "none"]
    /\ registry = [p \in Procs |-> Null]
    /\ current = [p \in Procs |-> Null]
    /\ nextId = 1
    /\ project = [p \in Procs |-> ""]
    /\ otherFile = NoFile
    /\ disk = "ok"
    /\ last = Op("init", 0, Null, FALSE, FALSE)

\* new ErrorLearningSystem(projectName)
ConstructFor(p, projectName) ==
    /\ pc[p] = "none"
    /\ project' = [project EXCEPT ![p] = projectName]
    /\ registry' = [registry EXCEPT ![p] =
                       loadRegistry(projectName,
                                    IF RegistryPath(projectName) = OtherPath
                                    THEN otherFile ELSE registryFile)]
    /\ pc' = [pc EXCEPT ![p] = "ready"]
    /\ last' = Op("construct", p, Null, FALSE, FALSE)
    /\ UNCHANGED <<registryFile, otherFile, files, current, nextId, disk>>

\* new ErrorLearningSystem('will-generator')
Construct(p) == ConstructFor(p, ProjectName)

\* reportError(errorMessage, category, context) up to and including the
\* first saveRegistry (lines 125-150); when the write fails the call ends
\* there with the exception of writeFileSync
ReportError(p, r) ==
    /\ pc[p] = "ready"
    /\ nextId <= MaxReports
    /\ nextId' = nextId + 1
    /\ LET error == NewErrorRecord(registry[p], nextId, r.message, r.category,
                                   r.context)
       IN  IF error = TypeError
           THEN /\ last' = Op("reportError", p, r, TRUE, FALSE)
                /\ current' = [current EXCEPT ![p] = Null]
                /\ UNCHANGED <<registryFile, otherFile, registry, pc>>
           ELSE LET pushed == PushError(registry[p], error)
                    write == writeFileSync(projectRegistryFile(p),
                                           saveRegistry(pushed, projectRegistryFile(p)),
                                           TruncatedFile, disk)
                IN  /\ registry' = [registry EXCEPT ![p] = pushed]
                    /\ WriteRegistryFile(p, write.file)
                    /\ current' = [current EXCEPT ![p] = error]
                    /\ pc' = [pc EXCEPT ![p] = IF write.threw THEN "ready"
                                                               ELSE "saved"]
                    /\ last' = Op("reportError", p, r, write.threw, ~write.threw)
    /\ UNCHANGED <<files, disk, project>>

\* the rest of reportError (lines 156-164): synthesis and the second save
FinishReport(p) ==
    /\ pc[p] = "saved"
    /\ LET g == generateTestForError(registry[p], current[p])
       IN  IF g.ok
           THEN LET marked == WithError(g.registry, MarkGenerated(current[p]))
                    write == writeFileSync(projectRegistryFile(p),
                                           saveRegistry(marked, projectRegistryFile(p)),
                                           TruncatedFile, disk)
                IN  /\ current' = [current EXCEPT ![p] = MarkGenerated(@)]
                    /\ registry' = [registry EXCEPT ![p] = marked]
                    /\ WriteRegistryFile(p, write.file)
                    /\ last' = Op("synthesis", p, Null, write.threw, ~write.threw)
           ELSE /\ last' = Op("synthesis", p, Null, FALSE, FALSE)
                /\ UNCHANGED <<current, registry, registryFile, otherFile>>
    /\ pc' = [pc EXCEPT ![p] = "ready"]
    /\ UNCHANGED <<files, nextId, disk, project>>

\* exportTests(projectPath)
ExportTests(p) ==
    /\ pc[p] = "ready"
    /\ LET export == exportTests(registry[p], files, disk)
       IN  /\ files' = export.files
           /\ last' = Op("exportTests", p, Null, export.threw, FALSE)
    /\ UNCHANGED <<registryFile, otherFile, pc, registry, current, nextId, disk,
                   project>>

\* listErrors() of instance p: it prints, and changes nothing
ListErrors(p) ==
    /\ pc[p] = "ready"
    /\ last' = Op("listErrors", p, Null, listErrors(registry[p]) = TypeError, FALSE)
    /\ UNCHANGED <<registryFile, otherFile, files, pc, registry, current, nextId,
                   disk, project>>

\* getSummary() of instance p: it returns the summary, and changes nothing
GetSummary(p) ==
    /\ pc[p] = "ready"
    /\ last' = Op("getSummary", p, Null, getSummary(registry[p]) = TypeError, FALSE)
    /\ UNCHANGED <<registryFile, otherFile, files, pc, registry, current, nextId,
                   disk, project>>

\* The exported regression test of varName runs on some page: expect(
\* isAccessible).toBe(true) throws when the check gave false.
RunGeneratedCheck(varName) ==
    /\ files.playwright.exists /\ Readable(files.playwright)
    /\ Includes(readFileSync(files.playwright),
                PlaywrightCheckCode("variableName", <<varName>>))
    /\ \E page \in PageStates :
          last' = Op("runCheck", 0, [varName |-> varName, page |-> page],
                     ~isAccessible(page), FALSE)
    /\ UNCHANGED <<registryFile, otherFile, files, pc, registry, current, nextId,
                   disk, project>>

\* the instance is dropped (the CLI process ends)
Exit(p) ==
    /\ pc[p] = "ready"
    /\ pc' = [pc EXCEPT ![p] = "none"]
    /\ registry' = [registry EXCEPT ![p] = Null]
    /\ current' = [current EXCEPT ![p] = Null]
    /\ project' = [project EXCEPT ![p] = ""]
    /\ last' = Op("exit", p, Null, FALSE, FALSE)
    /\ UNCHANGED <<registryFile, otherFile, files, nextId, disk>>

\* Invocations that may interleave: every instance loads, reports and saves
\* on its own, nothing serializes them.  An instance that ended and was
\* started again is another instance here, so Exit is left to NextSerial.
Next ==
    \E p \in Procs :
        \/ Construct(p)
        \/ \E r \in ConcurrentReports : ReportError(p, r)
        \/ FinishReport(p)

Spec == Init /\ [][Next]_vars

\* Serialized invocations: an instance is constructed (and loads) only when
\* no other instance is alive, so after the previous one's last save.
SerialConstruct(p) ==
    /\ \A q \in Procs : pc[q] = "none"
    /\ Construct(p)

NextSerial ==
    \E p \in Procs :
        \/ SerialConstruct(p)
        \/ \E r \in CoreReports : ReportError(p, r)
        \/ FinishReport(p)
        \/ ExportTests(p)
        \/ ListErrors(p)
        \/ GetSummary(p)
        \/ Exit(p)

SpecSerial == Init /\ [][NextSerial]_vars

\* Serialized invocations that report, export the regression tests, and the
\* exported variableName check run on pages.
CheckReports ==
    {Report("fooBar is not defined", "js-runtime", [file |-> Str("app.js")]),
     Report("ModuleNotFoundError: No module named 'requests'", "python-import",
            EmptyObject)}

NextChecks ==
    \/ \E p \in Procs :
          \/ SerialConstruct(p)
          \/ \E r \in CheckReports : ReportError(p, r)
          \/ FinishReport(p)
          \/ ExportTests(p)
          \/ Exit(p)
    \/ RunGeneratedCheck("fooBar")

SpecChecks == Init /\ [][NextChecks]_vars

\* Serialized invocations for several project names.
ProjectReports ==
    {Report("fooBar is not defined in init.js", "js-runtime",
            [file |-> Str("init.js")]),
     Report("fooBar is not defined in main.js", "js-runtime",
            [file |-> Str("main.js")])}

SerialConstructFor(p, projectName) ==
    /\ \A q \in Procs : pc[q] = "none"
    /\ ConstructFor(p, projectName)

NextProjects ==
    \E p \in Procs :
        \/ \E projectName \in ProjectNames : SerialConstructFor(p, projectName)
        \/ \E r \in ProjectReports : ReportError(p, r)
        \/ FinishReport(p)
        \/ ListErrors(p)
        \/ ExportTests(p)
        \/ Exit(p)

SpecProjects == Init /\ [][NextProjects]_vars

\* Serialized invocations reporting over the whole taxonomy.
NextTaxonomy ==
    \E p \in Procs :
        \/ SerialConstruct(p)
        \/ \E r \in TaxonomyReports : ReportError(p, r)
        \/ FinishReport(p)
        \/ Exit(p)

SpecTaxonomy == Init /\ [][NextTaxonomy]_vars

\* Serialized invocations reporting texts that share words.
NextSimilarity ==
    \E p \in Procs :
        \/ SerialConstruct(p)
        \/ \E r \in SimilarityReports : ReportError(p, r)
        \/ FinishReport(p)
        \/ Exit(p)

SpecSimilarity == Init /\ [][NextSimilarity]_vars

\* The reports made while the files and the storage medium misbehave.
StorageReports ==
    {Report("fooBar is not defined", "js-runtime", [file |-> Str("app.js")]),
     Report("ModuleNotFoundError: No module named 'requests'", "python-import",
            EmptyObject),
     Report("Segmentation fault", "qt-crash", EmptyObject)}

\* target test files this process may not read
UnreadableTargets ==
    [playwright |-> UnreadableFile(TRUE), python |-> UnreadableFile(TRUE)]

\* The files as another program, another user or a crash may have left
\* them: the registry file cut short or not readable by this process, or
\* the target files not readable.
InitStorage ==
    /\ \/ /\ registryFile \in {TruncatedFile, UnreadableFile(TRUE),
                                UnreadableFile(FALSE)}
          /\ files = [playwright |-> NoFile, python |-> NoFile]
       \/ /\ registryFile = NoFile
          /\ files = UnreadableTargets
    /\ pc = [p \in Procs |-> "none"]
    /\ registry = [p \in Procs |-> Null]
    /\ current = [p \in Procs |-> Null]
    /\ nextId = 1
    /\ project = [p \in Procs |-> ""]
    /\ otherFile = NoFile
    /\ disk = "ok"
    /\ last = Op("init", 0, Null, FALSE, FALSE)

\* the storage medium starts to refuse writes
DiskFails(d) ==
    /\ disk = "ok"
    /\ disk' = d
    /\ last' = Op("diskFails", 0, Null, FALSE, FALSE)
    /\ UNCHANGED <<registryFile, otherFile, files, pc, registry, current, nextId,
                   project>>

\* the storage medium takes writes again
DiskRecovers ==
    /\ disk # "ok"
    /\ disk' = "ok"
    /\ last' = Op("diskRecovers", 0, Null, FALSE, FALSE)
    /\ UNCHANGED <<registryFile, otherFile, files, pc, registry, current, nextId,
                   project>>

\* Serialized invocations on files and a storage medium that may fail.
NextStorage ==
    \/ \E p \in Procs :
          \/ SerialConstruct(p)
          \/ \E r \in StorageReports : ReportError(p, r)
          \/ FinishReport(p)
          \/ ExportTests(p)
          \/ Exit(p)
    \/ \E d \in DiskStates \ {"ok"} : DiskFails(d)
    \/ DiskRecovers

SpecStorage == InitStorage /\ [][NextStorage]_vars

\* Serialized invocations on a registry file that another program or a
\* hand edit left: a JSON text that is no registry ({} or null), a text cut
\* short, or none.
InitParsed ==
    /\ registryFile \in {FileOf(Raw("{}")), FileOf(Raw("null")), TruncatedFile, NoFile}
    /\ files = [playwright |-> NoFile, python |-> NoFile]
    /\ pc = [p \in Procs |-> "none"]
    /\ registry = [p \in Procs |-> Null]
    /\ current = [p \in Procs |-> Null]
    /\ nextId = 1
    /\ project = [p \in Procs |-> ""]
    /\ otherFile = NoFile
    /\ disk = "ok"
    /\ last = Op("init", 0, Null, FALSE, FALSE)

NextParsed ==
    \E p \in Procs :
        \/ SerialConstruct(p)
        \/ \E r \in StorageReports : ReportError(p, r)
        \/ FinishReport(p)
        \/ ExportTests(p)
        \/ ListErrors(p)
        \/ Exit(p)

SpecParsed == InitParsed /\ [][NextParsed]_vars

(***************************************************************************)
(* Export (checked under SpecSerial).                                      *)
(***************************************************************************)
\* the registry document on disk (no records while there is no file)
Persisted ==
    IF registryFile.exists THEN registryFile.text ELSE EmptyRegistry(ProjectName)

\* C1: idempotent export.  For the fragments an instance holds and the
\* target files as they are, exporting twice in succession leaves the files
\* as exporting once does.
C1_IdempotentExport ==
    \A p \in Procs :
        pc[p] = "ready" =>
            exportTests(registry[p], exportTests(registry[p], files, disk).files,
                        disk).files
                = exportTests(registry[p], files, disk).files

\* C2: export appends.  Whenever exportTests writes a target file, the text
\* the file held before is still in it, and every fragment of that kind whose
\* name was not in the file is in it afterwards.
C2_ExportAppends ==
    [][\A p \in Procs : \A k \in TestKinds :
          (ExportTests(p) /\ files'[k] # files[k]) =>
              /\ Includes(ExistingTests(files'[k]), ExistingTests(files[k]))
              /\ \A i \in 1..Len(registry[p].generatedTests) :
                    LET t == registry[p].generatedTests[i]
                    IN  (t.testType = k
                         /\ ~Includes(ExistingTests(files[k]), t.testName))
                        => Includes(ExistingTests(files'[k]), t.testCode)]_vars

\* C3: export never duplicates a fragment name.  No test name of the
\* registry occurs more than once in a target file.
C3_NoDuplicateNames ==
    \A k \in TestKinds : \A i \in 1..Len(Persisted.generatedTests) :
        Occurrences(ExistingTests(files[k]), Persisted.generatedTests[i].testName) <= 1

\* C4: export completeness.  Right after exportTests returns, the name of
\* every fragment of the exporting instance is in the target file of its kind.
C4_ExportComplete ==
    last.op = "exportTests" =>
        \A i \in 1..Len(registry[last.proc].generatedTests) :
            LET t == registry[last.proc].generatedTests[i]
            IN  Includes(ExistingTests(files[t.testType]), t.testName)

(***************************************************************************)
(* Concurrent invocations (checked under Spec).                            *)
(***************************************************************************)
HasRecord(reg, id) == \E i \in 1..Len(reg.errors) : reg.errors[i].id = id

\* instance p has pushed and saved the record of a reportError call
HasReported(p) == pc[p] \in {"saved", "ready"} /\ current[p] # Null

\* C5: last writer wins.  When two instances have each reported a record and
\* neither had loaded the other's (both loaded before the other saved), the
\* persisted registry never holds both records.
C5_LastWriterWins ==
    \A p \in Procs : \A q \in Procs :
        (/\ p # q
         /\ HasReported(p) /\ HasReported(q)
         /\ ~HasRecord(registry[p], current[q].id)
         /\ ~HasRecord(registry[q], current[p].id))
        => ~(HasRecord(Persisted, current[p].id) /\ HasRecord(Persisted, current[q].id))

\* C5, the interleaving: both instances loaded the empty registry, both
\* reports have returned, and the file holds the record of one of them only.
C5_LostUpdate ==
    \E p \in Procs : \E q \in Procs :
        /\ p # q
        /\ pc[p] = "ready" /\ pc[q] = "ready"
        /\ current[p] # Null /\ current[q] # Null
        /\ Len(registry[p].errors) = 1 /\ Len(registry[q].errors) = 1
        /\ Len(Persisted.errors) = 1
        /\ HasRecord(Persisted, current[q].id)
        /\ ~HasRecord(Persisted, current[p].id)

\* the registry holds a fragment or a lint entry of record id
HasSynthesis(reg, id) ==
    \/ \E i \in 1..Len(reg.generatedTests) : reg.generatedTests[i].errorId = id
    \/ \E i \in 1..Len(reg.patterns) : reg.patterns[i].errorId = id

\* C7: in every persisted registry, a record has status 'test-generated'
\* exactly when testGenerated is true, and exactly when the registry holds a
\* fragment or lint entry of that record.
C7_StatusMatchesSynthesis ==
    \A i \in 1..Len(Persisted.errors) :
        LET e == Persisted.errors[i]
        IN  /\ (e.status = "test-generated") <=> e.testGenerated
            /\ e.testGenerated <=> HasSynthesis(Persisted, e.id)
            /\ e.status \in {"new", "test-generated"}

\* C7: a persisted registry with a synthesized record next to one that is
\* still new, written while another instance is in the middle of a report.
C7_Witness ==
    /\ registryFile.exists
    /\ \E i \in 1..Len(Persisted.errors) :
          Persisted.errors[i].testGenerated /\ HasSynthesis(Persisted, Persisted.errors[i].id)
    /\ \E i \in 1..Len(Persisted.errors) :
          ~Persisted.errors[i].testGenerated
          /\ "detectedPattern" \in DOMAIN Persisted.errors[i]
    /\ \E p \in Procs : pc[p] = "saved"

(***************************************************************************)
(* Serialized invocations (checked under SpecSerial).                      *)
(***************************************************************************)
\* C6: the persisted errors list is append-only.  Every record persisted
\* stays at its position with its id and message, and its status changes
\* only from 'new' to 'test-generated'.
C6_AppendOnly ==
    [][registryFile.exists =>
          /\ registryFile'.exists
          /\ Len(Persisted'.errors) >= Len(Persisted.errors)
          /\ \A i \in 1..Len(Persisted.errors) :
                /\ Persisted'.errors[i].id = Persisted.errors[i].id
                /\ Persisted'.errors[i].message = Persisted.errors[i].message
                /\ \/ Persisted'.errors[i].status = Persisted.errors[i].status
                   \/ /\ Persisted.errors[i].status = "new"
                      /\ Persisted'.errors[i].status = "test-generated"]_vars

\* C6: a later invocation has appended a second record behind a record that
\* went from 'new' to 'test-generated'.
C6_Witness ==
    /\ Len(Persisted.errors) = 2
    /\ Persisted.errors[1].status = "test-generated"
    /\ Persisted.errors[1].id < Persisted.errors[2].id
    /\ last.op = "reportError" /\ last.saved
    /\ Len(registry[last.proc].errors) = 2

(***************************************************************************)
(* Reports over the taxonomy (checked under SpecTaxonomy).                 *)
(***************************************************************************)
\* C8: unknown category round-trip.  A report whose category is no taxonomy
\* name raises no exception and persists a record without detectedPattern,
\* with testGenerated = false and status 'new'; synthesis then adds nothing.
C8_UnknownCategory ==
    /\ (last.op = "reportError" /\ last.arg.category \notin CategoryNames) =>
          /\ ~last.threw
          /\ Len(Persisted.errors) > 0
          /\ LET e == Persisted.errors[Len(Persisted.errors)]
             IN  /\ e.message = last.arg.message
                 /\ "detectedPattern" \notin DOMAIN e
                 /\ e.testGenerated = FALSE
                 /\ e.status = "new"
    /\ \A p \in Procs :
          (last.op = "synthesis" /\ last.proc = p
           /\ current[p].category \notin CategoryNames) =>
              /\ ~last.saved
              /\ ~HasSynthesis(registry[p], current[p].id)
              /\ ~current[p].testGenerated

\* the kinds the claim lists as having no synthesis
ManualOrUnsupported(detectedPattern) ==
    \/ detectedPattern.testType = "manual"
    \/ detectedPattern.type \in {"nullAccess", "importName", "attributeError",
                                 "typeError", "sqliteError", "missingTable"}

\* C9: manual and unsupported kinds are never synthesized.  The pattern is
\* detected and the record persisted, and synthesis adds no fragment and no
\* lint entry: testGenerated stays false and status stays 'new'.
C9_NoSynthesisForManual ==
    \A p \in Procs :
        (/\ last.proc = p /\ ~last.threw
         /\ last.op \in {"reportError", "synthesis"}
         /\ "detectedPattern" \in DOMAIN current[p]
         /\ ManualOrUnsupported(current[p].detectedPattern))
        => /\ \E i \in 1..Len(Persisted.errors) :
                 /\ Persisted.errors[i] = ErrorToJSON(current[p])
                 /\ Persisted.errors[i].detectedPattern = current[p].detectedPattern
           /\ ~HasSynthesis(registry[p], current[p].id)
           /\ ~HasSynthesis(Persisted, current[p].id)
           /\ current[p].testGenerated = FALSE /\ current[p].status = "new"
           /\ (last.op = "synthesis" => ~last.saved)

\* C9: the synthesis step has run for a record of an unsupported kind, after
\* a manual-only record went through it.
C9_Witness ==
    /\ last.op = "synthesis"
    /\ "detectedPattern" \in DOMAIN current[last.proc]
    /\ current[last.proc].detectedPattern.type = "missingTable"
    /\ Len(Persisted.errors) = 2
    /\ "detectedPattern" \in DOMAIN Persisted.errors[1]
    /\ Persisted.errors[1].detectedPattern.type = "segfault"

\* a report of the lint-rule category whose text matched a rule
IsLintReport(error) ==
    error.category = "js-syntax" /\ "detectedPattern" \in DOMAIN error

\* C10: the synthesis step of a js-syntax report whose text matched appends
\* exactly one lint entry {errorId, rule 'no-undef'} and no test fragment,
\* marks the record testGenerated / 'test-generated' and saves that.
C10_LintEntry ==
    [][\A p \in Procs :
          (pc[p] = "saved" /\ pc'[p] = "ready" /\ IsLintReport(current[p])) =>
              LET before == registry[p]
                  after == registry'[p]
                  n == Len(before.patterns)
              IN  /\ Len(after.patterns) = n + 1
                  /\ SubSeq(after.patterns, 1, n) = before.patterns
                  /\ after.patterns[n + 1].errorId = current[p].id
                  /\ after.patterns[n + 1].rule = "no-undef"
                  /\ after.generatedTests = before.generatedTests
                  /\ current'[p].testGenerated = TRUE
                  /\ current'[p].status = "test-generated"
                  /\ \E i \in 1..Len(after.errors) : after.errors[i] = current'[p]
                  /\ Persisted' = JSONStringify(after)]_vars

\* C10: the lint entry of a js-syntax report has just been saved.
C10_Witness ==
    /\ last.op = "synthesis" /\ last.saved
    /\ IsLintReport(current[last.proc])
    /\ current[last.proc].detectedPattern.type = "unterminatedString"
    /\ Len(Persisted.patterns) = 1
    /\ Len(Persisted.generatedTests) = 0

(***************************************************************************)
(* Detection (checked under SpecTaxonomy).                                 *)
(***************************************************************************)
\* the position of the first rule of the category, in declared order, whose
\* pattern matches the text; 0 when none does
FirstMatchingRule(errorMessage, category) ==
    LET patterns == ERROR_CATEGORIES[category].patterns
        hits == {i \in 1..Len(patterns) :
                    StringMatch(errorMessage, patterns[i].regex) # Null}
    IN  IF hits = {} THEN 0 ELSE CHOOSE i \in hits : \A j \in hits : i <= j

\* what the contract of detectPattern gives for a text and a category
ContractOfDetectPattern(errorMessage, category) ==
    IF category \notin CategoryNames THEN Null
    ELSE LET i == FirstMatchingRule(errorMessage, category)
             rule == ERROR_CATEGORIES[category].patterns[i]
             found == StringMatch(errorMessage, rule.regex)
         IN  IF i = 0 THEN Null
             ELSE [type |-> rule.extract,
                   match |-> found.match,
                   captures |-> found.captures,
                   testType |-> ERROR_CATEGORIES[category].testType]

ContractOf == [k \in ReportKeys |-> ContractOfDetectPattern(k[1], k[2])]

\* C11: for the report just made, detectPattern gave null when the category
\* is no taxonomy name or no rule of it matches, and otherwise the match of
\* the first rule in declared order that matches, tagged with the rule's
\* kind, the matched text, the capture groups and the category's test kind;
\* the three texts of the claim give the kinds and captures it names.
C11_DetectPattern ==
    /\ last.op = "reportError" =>
          DetectedPatternOf[<<last.arg.message, last.arg.category>>]
              = ContractOf[<<last.arg.message, last.arg.category>>]
    /\ LET d == DetectedPatternOf[<<"fooBar is not defined", "js-runtime">>]
       IN  d.type = "variableName" /\ d.captures[1] = "fooBar"
    /\ LET d == DetectedPatternOf[<<"Cannot access 'x' before initialization",
                                    "js-runtime">>]
       IN  d.type = "temporalDeadZone" /\ d.captures[1] = "x"
    /\ LET d == DetectedPatternOf[<<"ModuleNotFoundError: No module named 'requests'",
                                    "python-import">>]
       IN  d.type = "moduleName" /\ d.captures[1] = "requests"

(***************************************************************************)
(* Similarity (checked under SpecSimilarity).                              *)
(***************************************************************************)
\* the set of the significant words of a text
WordSet(message) == {WordsOf(message)[i] : i \in 1..Len(WordsOf(message))}

\* the records in front of the one the last reportError pushed
PriorErrors(p) == SubSeq(registry[p].errors, 1, Len(registry[p].errors) - 1)

\* the rule of the claim with the query counted as n words: the set of
\* common words has at least min(3, 0.5 x n) members (doubled values)
SimilarBySets(errorMessage, e, n) ==
    2 * Cardinality(WordSet(errorMessage) \cap WordSet(e.message))
        >= (IF 6 <= n THEN 6 ELSE n)

IdsOf(errors) == [i \in 1..Len(errors) |-> errors[i].id]

\* the similarErrors of the record last reported, <<>> when it has none
SimilarErrorsOf(error) ==
    IF "similarErrors" \in DOMAIN error THEN error.similarErrors ELSE <<>>

\* C12: the records findSimilarErrors gave to the last report are exactly
\* the prior records whose set of significant words shares at least
\* min(3, 0.5 x n) words with the set of the query's, with n the number of
\* significant words of the query, counted either as occurrences or as
\* distinct words.
C12_SimilarBySets ==
    (last.op = "reportError" /\ ~last.threw) =>
        LET p == last.proc
            text == last.arg.message
            found == findSimilarErrors(PriorErrors(p), text)
            byOccurrences == SelectSeq(PriorErrors(p), LAMBDA e :
                                SimilarBySets(text, e, Len(WordsOf(text))))
            byDistinct == SelectSeq(PriorErrors(p), LAMBDA e :
                             SimilarBySets(text, e, Cardinality(WordSet(text))))
        IN  /\ SimilarErrorsOf(current[p]) = IdsOf(found)
            /\ found = byOccurrences \/ found = byDistinct

\* the significant words the two texts have in common
CommonWordSet(errorMessage, e) == WordSet(errorMessage) \cap WordSet(e.message)

\* how often word w occurs among the significant words of the text
OccurrencesOfWord(message, w) ==
    Len(SelectSeq(WordsOf(message), LAMBDA x : x = w))

ErrorOf(reg, id) ==
    reg.errors[CHOOSE i \in 1..Len(reg.errors) : reg.errors[i].id = id]

\* two records agree in category, extracted kind and first capture
SameNamingKey(e1, e2) ==
    /\ e1.category = e2.category
    /\ "detectedPattern" \in DOMAIN e1 /\ "detectedPattern" \in DOMAIN e2
    /\ e1.detectedPattern.type = e2.detectedPattern.type
    /\ Len(e1.detectedPattern.captures) > 0
    /\ Len(e2.detectedPattern.captures) > 0
    /\ e1.detectedPattern.captures[1] = e2.detectedPattern.captures[1]

RegistryFileBroken ==
    /\ registryFile.exists
    /\ ~Readable(registryFile) \/ "raw" \in DOMAIN registryFile.text

\* the registry file holds a document that saveRegistry wrote
RegistryFileSound ==
    /\ registryFile.exists
    /\ Readable(registryFile)
    /\ "raw" \notin DOMAIN registryFile.text

\* the instance of the last operation has just been constructed on a
\* registry file that could not be read or parsed, and the medium is sound
RecoveredJustNow ==
    last.op = "construct" /\ RegistryFileBroken /\ disk = "ok"

\* the step is reportError, up to its first save, called on the instance
\* constructed last with a report that detectPattern takes
ReportsNext ==
    /\ last'.op = "reportError" /\ last'.proc = last.proc
    /\ last'.arg.category \in CategoryNames

RegistryWriteFails == disk # "ok" \/ ~Writable(registryFile)

\* the step is the first part of reportError by p and reached the first
\* save: the record was pushed
ReachesFirstSave(p) ==
    /\ last'.op = "reportError" /\ last'.proc = p
    /\ Len(registry'[p].errors) = Len(registry[p].errors) + 1

\* the step is the rest of reportError by p and reached the second save:
\* synthesis succeeded and the record was marked
ReachesSecondSave(p) ==
    /\ last'.op = "synthesis" /\ last'.proc = p
    /\ current'[p].testGenerated /\ ~current[p].testGenerated

\* C18: a storage failure on save propagates.  When reportError reaches
\* its first or its second save and the write fails, the call ends there
\* with the exception: nothing more of reportError runs, and the file is
\* not the saved registry.  When the write succeeds, the call goes on.
C18_SaveFailurePropagates ==
    [][\A p \in Procs :
          /\ (ReachesFirstSave(p) /\ RegistryWriteFails) =>
                /\ last'.threw /\ ~last'.saved
                /\ pc'[p] = "ready"
                /\ registry'[p].generatedTests = registry[p].generatedTests
                /\ registryFile' \in {registryFile, TruncatedFile}
          /\ (ReachesSecondSave(p) /\ RegistryWriteFails) =>
                /\ last'.threw /\ ~last'.saved
                /\ pc'[p] = "ready"
                /\ registryFile' \in {registryFile, TruncatedFile}
          /\ ((ReachesFirstSave(p) \/ ReachesSecondSave(p)) /\ ~RegistryWriteFails) =>
                /\ ~last'.threw /\ last'.saved
                /\ registryFile' = FileOf(JSONStringify(registry'[p]))]_vars

\* C18: the second save of a report failed on a full disk: the call ended
\* in the exception, the record is marked in memory only, and the file is
\* cut short.
C18_Witness ==
    /\ last.op = "synthesis" /\ last.threw
    /\ disk = "full"
    /\ registryFile = TruncatedFile
    /\ current[last.proc].testGenerated
    /\ pc[last.proc] = "ready"

\* the target file of kind k exists and cannot be read
TargetUnreadable(k) == files[k].exists /\ ~Readable(files[k])

\* what exporting the fragments of kind k to an empty target writes
ExportedToEmpty(reg, k) ==
    IF k = "playwright"
    THEN exportPlaywrightTests(TestsOfType(reg, k), NoFile, "ok").file
    ELSE exportPythonTests(TestsOfType(reg, k), NoFile, "ok").file

\* C19: an unreadable export target is never fatal.  With a sound storage
\* medium exportTests returns, and a target file that exists and cannot be
\* read is taken as empty: all fragments of its kind are written to it.
C19_UnreadableTargetNotFatal ==
    [][(last'.op = "exportTests" /\ disk = "ok") =>
          /\ ~last'.threw
          /\ \A k \in TestKinds :
                (TargetUnreadable(k)
                 /\ Len(TestsOfType(registry[last'.proc], k)) > 0)
                => files'[k] = ExportedToEmpty(registry[last'.proc], k)]_vars

(***************************************************************************)
(* Persistence round trip (checked under SpecSerial).                      *)
(***************************************************************************)
\* C20: registry persistence round trip.  Right after an instance saved
\* its registry, loading the file in a new instance gives a registry with
\* the same records and fragments, in every field, as the one saved.
C20_RoundTrip ==
    last.saved =>
        LET saved == registry[last.proc]
            loaded == loadRegistry(ProjectName, registryFile)
        IN  /\ loaded.errors = saved.errors
            /\ loaded.generatedTests = saved.generatedTests
            /\ loaded.patterns = saved.patterns

(***************************************************************************)
(* Similar records of a record (checked under SpecSerial).                 *)
(***************************************************************************)
\* the ids of the records in front of position i that the predicate of
\* findSimilarErrors takes for the text of the record at i
SimilarIdsBefore(errors, i) ==
    IdsOf(SelectSeq(SubSeq(errors, 1, i - 1),
                    LAMBDA e : IsSimilar(errors[i].message, e)))

SimilarErrorsExact(errors) ==
    \A i \in 1..Len(errors) :
        /\ SimilarErrorsOf(errors[i]) = SimilarIdsBefore(errors, i)
        /\ ~SeqIncludes(SimilarErrorsOf(errors[i]), errors[i].id)
        /\ \A j \in i..Len(errors) :
              ~SeqIncludes(SimilarErrorsOf(errors[i]), errors[j].id)

\* C21: the similarErrors of every record, in memory and persisted, are
\* exactly the ids of the records in front of it that findSimilarErrors
\* takes for its text: never its own id, never the id of a later record;
\* and no step (report, synthesis, export) changes the similarErrors of a
\* record that is already there.
C21_SimilarErrorsIntegrity ==
    [][/\ \A p \in Procs :
             pc'[p] # "none" => SimilarErrorsExact(registry'[p].errors)
       /\ SimilarErrorsExact(Persisted'.errors)
       /\ \A i \in 1..Len(Persisted.errors) :
             SimilarErrorsOf(Persisted'.errors[i])
                 = SimilarErrorsOf(Persisted.errors[i])
       /\ \A p \in Procs :
             (pc[p] # "none" /\ pc'[p] # "none") =>
                 \A i \in 1..Len(registry[p].errors) :
                     SimilarErrorsOf(registry'[p].errors[i])
                         = SimilarErrorsOf(registry[p].errors[i])]_vars

\* C21: the second of two records has the first as its similar record, and
\* an export has run on that registry since.
C21_Witness ==
    /\ last.op = "exportTests"
    /\ Len(Persisted.errors) = 2
    /\ "similarErrors" \notin DOMAIN Persisted.errors[1]
    /\ SimilarErrorsOf(Persisted.errors[2]) = <<Persisted.errors[1].id>>
    /\ registry[last.proc].errors = Persisted.errors

(***************************************************************************)
(* The steps of one reportError call (checked under SpecTaxonomy).         *)
(***************************************************************************)
\* the record of the running reportError call of p as the file holds it
PersistedCurrent(p) ==
    \E i \in 1..Len(Persisted.errors) : Persisted.errors[i] = ErrorToJSON(current[p])

\* C24: the steps of one reportError call keep their order.  The record is
\* persisted with the detected pattern and the similar records already in
\* it, the similar records being looked up among the records in front of
\* it; synthesis runs only as the step after that save, on a record the
\* file holds, and nothing of synthesis is in the registry before.
C24_StepOrder ==
    [][\A p \in Procs :
          /\ (last'.op = "reportError" /\ last'.proc = p /\ ~last'.threw) =>
                LET errors == registry'[p].errors
                    n == Len(errors)
                IN  /\ n = Len(registry[p].errors) + 1
                    /\ errors[n] = current'[p]
                    /\ ("detectedPattern" \in DOMAIN errors[n])
                          <=> (detectPattern(last'.arg.message, last'.arg.category)
                                  # Null)
                    /\ SimilarErrorsOf(errors[n])
                          = IdsOf(findSimilarErrors(registry[p].errors,
                                                    last'.arg.message))
                    /\ Len(Persisted'.errors) = n
                    /\ Persisted'.errors[n] = ErrorToJSON(errors[n])
                    /\ ~HasSynthesis(registry'[p], errors[n].id)
                    /\ ~HasSynthesis(Persisted', errors[n].id)
                    /\ errors[n].status = "new"
                    /\ pc'[p] = "saved"
          /\ (last'.op = "synthesis" /\ last'.proc = p) =>
                /\ last.op = "reportError" /\ last.proc = p /\ last.saved
                /\ PersistedCurrent(p)
                /\ ~HasSynthesis(registry[p], current[p].id)]_vars

\* C24: synthesis has just run for a record that was saved with its pattern
\* and its similar record, and it added a fragment.
C24_Witness ==
    /\ last.op = "synthesis" /\ last.saved
    /\ "detectedPattern" \in DOMAIN current[last.proc]
    /\ SimilarErrorsOf(current[last.proc]) # <<>>
    /\ HasSynthesis(Persisted, current[last.proc].id)
    /\ Len(Persisted.generatedTests) > 0

(***************************************************************************)
(* Loads and saves of one reportError call (checked under Spec).           *)
(***************************************************************************)
\* C25 as stated: a reportError call writes the registry file exactly once:
\* when its first part has saved the record, its second part writes nothing.
C25_SavedOnce ==
    [][(last'.op = "synthesis" /\ pc[last'.proc] = "saved") => ~last'.saved]_vars

\* C25, amended: a reportError call works on the registry its instance
\* loaded at construction, never loading again, and writes the whole of it
\* after pushing the record; after synthesis it writes the whole of it a
\* second time exactly when synthesis produced a fragment or a lint entry.
C25_SavedOnceOrTwice ==
    [][\A p \in Procs :
          /\ (last'.op = "reportError" /\ last'.proc = p /\ ~last'.threw) =>
                /\ last'.saved
                /\ SubSeq(registry'[p].errors, 1, Len(registry[p].errors))
                      = registry[p].errors
                /\ registryFile' = FileOf(JSONStringify(registry'[p]))
          /\ (last'.op = "synthesis" /\ last'.proc = p) =>
                /\ last'.saved <=> HasSynthesis(registry'[p], current[p].id)
                /\ last'.saved =>
                      registryFile' = FileOf(JSONStringify(registry'[p]))
                /\ ~last'.saved =>
                      registryFile' = registryFile /\ registry'[p] = registry[p]
          /\ (last'.proc # p /\ pc[p] # "none") => registry'[p] = registry[p]]_vars

\* C25: a call has written the file a second time, after synthesis, on a
\* registry that no longer is what the file held: another instance had
\* saved in between and the call did not load again.
C25_Witness ==
    /\ last.op = "synthesis" /\ last.saved
    /\ Len(Persisted.generatedTests) = 1
    /\ Len(Persisted.errors) = 1
    /\ \E q \in Procs :
          /\ q # last.proc
          /\ pc[q] = "ready" /\ current[q] # Null
          /\ ~HasRecord(Persisted, current[q].id)

(***************************************************************************)
(* Interleaved invocations on one project (checked under Spec).            *)
(***************************************************************************)
\* the record with this id in the registry, when it holds one
IsNewWithoutSynthesis(reg, id) ==
    /\ HasRecord(reg, id)
    /\ ErrorOf(reg, id).status = "new"
    /\ ~HasSynthesis(reg, id)

IsGeneratedWithSynthesis(reg, id) ==
    /\ HasRecord(reg, id)
    /\ ErrorOf(reg, id).status = "test-generated"
    /\ HasSynthesis(reg, id)

\* the step takes the persisted record id back from 'test-generated' with
\* its fragment to 'new' without one
Regresses(id) ==
    /\ IsGeneratedWithSynthesis(Persisted, id)
    /\ IsNewWithoutSynthesis(Persisted', id)

\* C26: how a persisted status regresses.  An instance holds what the file
\* held when it was constructed and every save writes what the saving
\* instance holds; so the only steps that take a persisted record back from
\* 'test-generated' to 'new' are saves of another instance than the
\* reporter's, one that loaded the record while it was 'new'.
C26_StaleSaveRegresses ==
    [][/\ \A q \in Procs :
             (last'.op = "construct" /\ last'.proc = q) => registry'[q] = Persisted
       /\ last'.saved => Persisted' = JSONStringify(registry'[last'.proc])
       /\ \A id \in 1..MaxReports :
             Regresses(id) =>
                 /\ last'.op \in {"reportError", "synthesis"} /\ last'.saved
                 /\ IsNewWithoutSynthesis(registry[last'.proc], id)
                 /\ \E p \in Procs :
                       /\ p # last'.proc
                       /\ IsGeneratedWithSynthesis(registry[p], id)]_vars

\* C26: the interleaving.  The reporter of a record has returned with the
\* record 'test-generated' and its fragment saved, and the file now holds
\* that record as 'new', without fragment, next to the record of the
\* instance that saved last.
C26_StatusRegressed ==
    \E p \in Procs : \E q \in Procs :
        /\ p # q
        /\ pc[p] = "ready" /\ current[p] # Null
        /\ current[p].testGenerated
        /\ IsGeneratedWithSynthesis(registry[p], current[p].id)
        /\ IsNewWithoutSynthesis(Persisted, current[p].id)
        /\ last.op = "reportError" /\ last.proc = q /\ last.saved
        /\ HasRecord(Persisted, current[q].id)

\* every id the registry refers to is the id of one of its records
ReferencesResolve(reg) ==
    /\ \A i \in 1..Len(reg.generatedTests) :
          HasRecord(reg, reg.generatedTests[i].errorId)
    /\ \A i \in 1..Len(reg.patterns) : HasRecord(reg, reg.patterns[i].errorId)
    /\ \A i \in 1..Len(reg.errors) :
          \A j \in 1..Len(SimilarErrorsOf(reg.errors[i])) :
              HasRecord(reg, SimilarErrorsOf(reg.errors[i])[j])

\* C27: referential integrity.  In the persisted registry, whatever the
\* interleaving of the instances, the errorId of every fragment and lint
\* entry and every id in a record's similarErrors is the id of a record of
\* that same registry.
C27_ReferentialIntegrity == ReferencesResolve(Persisted)

\* C27: a save of one instance has dropped the record, the fragment and
\* the reference of another, and what the file holds refers to its own
\* records only: a record with a similar record and a fragment of its own.
C27_Witness ==
    /\ Len(Persisted.errors) = 2
    /\ SimilarErrorsOf(Persisted.errors[2]) = <<Persisted.errors[1].id>>
    /\ Len(Persisted.generatedTests) = 1
    /\ \E p \in Procs :
          /\ pc[p] = "ready" /\ current[p] # Null
          /\ HasSynthesis(registry[p], current[p].id)
          /\ ~HasSynthesis(Persisted, current[p].id)

(***************************************************************************)
(* Reflexivity of similarity (checked under SpecSimilarity).               *)
(***************************************************************************)
\* C30: similarity is reflexive on recorded messages.  When the text just
\* reported is the message of a record already in the registry, the id of
\* that record is in the similarErrors of the new record, for texts of any
\* number of significant words.
C30_Reflexive ==
    (last.op = "reportError" /\ ~last.threw) =>
        \A i \in 1..Len(PriorErrors(last.proc)) :
            PriorErrors(last.proc)[i].message = last.arg.message
                => SeqIncludes(SimilarErrorsOf(current[last.proc]),
                               PriorErrors(last.proc)[i].id)

\* C30: a text without any significant word was reported a second time and
\* the record of the first report is among its similar records.
C30_Witness ==
    /\ last.op = "reportError" /\ ~last.threw
    /\ Len(WordsOf(last.arg.message)) = 0
    /\ Len(PriorErrors(last.proc)) = 1
    /\ PriorErrors(last.proc)[1].message = last.arg.message
    /\ SimilarErrorsOf(current[last.proc]) = <<PriorErrors(last.proc)[1].id>>
    /\ Persisted.errors[2] = ErrorToJSON(current[last.proc])

(***************************************************************************)
(* The read-only operations (checked under SpecSerial).                    *)
(***************************************************************************)
ReadOnlyOps == {"listErrors", "getSummary", "exportTests"}

\* the sum of f[k] over the keys k of ks
RECURSIVE SumOver(_, _)
SumOver(f, ks) ==
    IF ks = {} THEN 0
    ELSE LET k == CHOOSE x \in ks : TRUE
         IN  f[k] + SumOver(f, ks \ {k})

\* every record of errors is in the group of exactly one key, and the group
\* sizes sum to the number of records
GroupsPartition(byCategory, errors) ==
    /\ \A i \in 1..Len(errors) :
          Cardinality({k \in DOMAIN byCategory :
                          SeqIncludes(byCategory[k], errors[i])}) = 1
    /\ SumOver([k \in DOMAIN byCategory |-> Len(byCategory[k])],
               DOMAIN byCategory) = Len(errors)

\* every count is a number, and the counts sum to the number of records
CountsAddUp(summary, errors) ==
    /\ \A k \in DOMAIN summary.byCategory : "num" \in DOMAIN summary.byCategory[k]
    /\ summary.totalErrors = Len(errors)
    /\ SumOver([k \in DOMAIN summary.byCategory |-> summary.byCategory[k].num],
               DOMAIN summary.byCategory) = Len(errors)

\* C23: listErrors, getSummary and exportTests leave the registry alone: a
\* step of one of them changes no instance's registry and does not write the
\* registry file.  listErrors puts every record in exactly one category
\* group and getSummary counts it in exactly one, so the group sizes sum to
\* the number of records.
C23_ReadOnlyViews ==
    [][last'.op \in ReadOnlyOps =>
          /\ registry' = registry
          /\ registryFile' = registryFile
          /\ ~last'.saved
          /\ last'.op = "listErrors" =>
                /\ ~last'.threw
                /\ GroupsPartition(listErrors(registry[last'.proc]).byCategory,
                                   registry[last'.proc].errors)
          /\ last'.op = "getSummary" =>
                CountsAddUp(getSummary(registry[last'.proc]),
                            registry[last'.proc].errors)]_vars

\* C23: listErrors ran on a registry with two records of one category and a
\* fragment, after an export that wrote the fragment to its target file.
C23_Witness ==
    /\ last.op = "listErrors" /\ ~last.threw
    /\ Len(registry[last.proc].errors) = 2
    /\ registry[last.proc].errors[1].category = registry[last.proc].errors[2].category
    /\ DOMAIN listErrors(registry[last.proc]).byCategory
          = {registry[last.proc].errors[1].category}
    /\ Len(registry[last.proc].generatedTests) >= 1
    /\ files.playwright.exists /\ files.playwright # HandWritten.playwright
    /\ Persisted = registry[last.proc]

(***************************************************************************)
(* The generated variableName check (checked under SpecChecks).            *)
(***************************************************************************)
\* one of the three lookups succeeds on the page
SomeLookupSucceeds(page) ==
    \/ page.getter = "returns"
    \/ page.bare = "defined"
    \/ page.global

\* C29: the generated variableName check fails only if all three lookups
\* fail.  Whenever the exported check ran on a page where the identifier is
\* reachable as a bare reference, through the accessor or on window, it
\* passed, a throwing accessor included.
C29_FailsOnlyIfAllLookupsFail ==
    (last.op = "runCheck" /\ SomeLookupSucceeds(last.arg.page)) => ~last.threw

(***************************************************************************)
(* A registry file that parses but is no registry (checked under           *)
(* SpecParsed).                                                            *)
(***************************************************************************)
\* what JSON.parse gives for the registry file (SyntaxError when it throws)
ParsedFile == JSONParse(readFileSync(registryFile))

LacksErrors(reg) == "errors" \notin DOMAIN reg

\* C28: the constructor falls back to an empty registry only when the
\* registry file is missing or does not parse; a file that parses is used as
\* loaded, with or without an errors list.  A reportError on a registry
\* without errors list throws, at the similarity lookup when detectPattern
\* returned, with no record added and nothing saved: the registry and the
\* registry file are as before.
C28_ParsedUsedAsLoaded ==
    [][/\ last'.op = "construct" =>
             LET loaded == registry'[last'.proc]
             IN  IF registryFile.exists /\ ParsedFile # SyntaxError
                 THEN loaded = ParsedFile
                 ELSE loaded = EmptyRegistry(ProjectName)
       /\ (last'.op = "reportError" /\ LacksErrors(registry[last'.proc])) =>
             /\ last'.threw /\ ~last'.saved
             /\ registry' = registry
             /\ registryFile' = registryFile
             /\ current'[last'.proc] = Null]_vars

\* C28: the file held {}, an instance took the empty object as its registry,
\* and its reportError of a message whose pattern detection returned threw
\* and left the file as it was.
C28_Witness ==
    /\ last.op = "reportError" /\ last.threw
    /\ registry[last.proc] = EmptyObject
    /\ detectPattern(last.arg.message, last.arg.category) \notin {Null, TypeError}
    /\ registryFile = FileOf(Raw("{}"))
    /\ pc[last.proc] = "ready"
(***************************************************************************)
(* Several projects (checked under SpecProjects).                          *)
(***************************************************************************)
\* the registry document persisted for a project name (no records while its
\* file is absent)
PersistedOf(projectName) ==
    LET file == IF RegistryPath(projectName) = OtherPath THEN otherFile
                ELSE registryFile
    IN  IF file.exists THEN file.text ELSE EmptyRegistry(projectName)

InstanceOps == {"construct", "reportError", "synthesis", "listErrors", "exportTests"}

\* no record of other's document is named in the similarErrors of a record
\* of own's document
NoSimilarAcross(own, other) ==
    \A i \in 1..Len(own.errors) :
        \A j \in 1..Len(SimilarErrorsOf(own.errors[i])) :
            ~HasRecord(other, SimilarErrorsOf(own.errors[i])[j])

\* C22: projects are independent.  A step of an instance of project P leaves
\* the persisted registry of every other project name Q as it was, and no
\* record of the persisted registry of Q is among the similarErrors of a
\* record of the persisted registry of P.
C22_ProjectsIndependent ==
    /\ [][\A Q \in ProjectNames :
             (last'.op \in InstanceOps /\ project'[last'.proc] # Q)
                 => PersistedOf(Q)' = PersistedOf(Q)]_vars
    /\ [](\A P \in ProjectNames : \A Q \in ProjectNames \ {P} :
             NoSimilarAcross(PersistedOf(P), PersistedOf(Q)))

====
